---- MODULE Spec2Model ----
(***************************************************************************)
(* Model of app.py: the WhisperTranscriber pipeline.  One shared           *)
(* transcriber object (model, model_name), the transcriptions directory    *)
(* tree on disk, and the generator frames of process_youtube_url and       *)
(* process_file_upload, one frame per worker that can run a handler.       *)
(*                                                                         *)
(* Optional values: None is the empty tuple, Some(v) the one-tuple <<v>>.  *)
(* language and task only select engine options (lines 142-148) and do not *)
(* influence control flow; they are not part of the frame.                 *)
(***************************************************************************)
EXTENDS Naturals, Sequences, FiniteSets, TLC

VARIABLES
    model,        \* self.model: None or Some(handle)
    model_name,   \* self.model_name: None or Some(identifier)
    dirs,         \* job directories that exist under transcriptions/
    files,        \* files that exist under transcriptions/
    job,          \* worker -> generator frame of the handler it runs
    calls,        \* log of direct load_model calls (CacheSpec only)
    call          \* last call of a pure helper: its argument and result

vars == <<model, model_name, dirs, files, job, calls, call>>

----------------------------------------------------------------------------
(* Bounds and input sets *)

NumWorkers == 2
MaxCalls == 4

Workers == 1..NumWorkers

Models == {"base", "small"}
Titles == {"t1"}
Formats == {"txt", "srt", "vtt", "json"}
Timestamps == {"20260101_000000", "20260101_000001"}
Texts == {<<" ", "a", " ">>, <<>>}
SegmentShapes == {"ok", "malformed"}

None == <<>>
Some(v) == <<v>>

----------------------------------------------------------------------------
(* Paths *)

TmpDir == "tmp"

Path(d, stem, stamp, ext) == [dir |-> d, stem |-> stem, stamp |-> stamp, ext |-> ext]
NoPath == Path("", "", "", "")
AudioFile(d) == Path(d, "audio", "", "mp3")
TranscriptFile(d, ext) == Path(d, "transcript", "", ext)
DetailedFile(d) == Path(d, "transcript_with_timestamps", "", "txt")
ExportFile(stamp, ext) == Path(TmpDir, "transcript", stamp, ext)

Event(e, p) == [ev |-> e, path |-> p]
Ev(e) == Event(e, NoPath)

----------------------------------------------------------------------------
(* str.strip() on a sequence of characters *)

RECURSIVE LStrip(_)
LStrip(s) == IF s # <<>> /\ Head(s) = " " THEN LStrip(Tail(s)) ELSE s

RECURSIVE RStrip(_)
RStrip(s) ==
    IF s # <<>> /\ s[Len(s)] = " " THEN RStrip(SubSeq(s, 1, Len(s) - 1)) ELSE s

Strip(s) == RStrip(LStrip(s))

----------------------------------------------------------------------------
(* Frames *)

IdleJob ==
    [pc |-> "idle", kind |-> "none", source |-> None, model_name |-> "base",
     include_timestamps |-> FALSE, export_formats |-> {},
     audio_path |-> None, video_dir |-> None, result |-> None,
     text_output |-> None, detailed_output |-> None, exports |-> <<>>,
     ran_on |-> None, obs |-> <<>>, trace |-> <<>>, retval |-> None,
     failed_in |-> None, raised |-> FALSE]

(* Status observations.  The URL handler yields 5-tuples (status, audio,    *)
(* transcript, detailed, files); the upload handler yields 4-tuples        *)
(* without the audio slot.                                                 *)
UrlObs(status, detail, audio, text, detailed, fs) ==
    [status |-> status, detail |-> detail, audio_path |-> audio, text |-> text,
     detailed |-> detailed, files |-> fs]

UploadObs(status, detail, text, detailed, fs) ==
    [status |-> status, detail |-> detail, text |-> text, detailed |-> detailed,
     files |-> fs]

Yield(j, o) == [j EXCEPT !.obs = Append(@, o)]
Did(j, e) == [j EXCEPT !.trace = Append(@, e)]

(* Bookkeeping: the stage in which an error was returned or raised. *)
Raise(j, stage) == [j EXCEPT !.failed_in = Some(stage)]

Init ==
    /\ model = None
    /\ model_name = None
    /\ dirs = {}
    /\ files = {}
    /\ job = [w \in Workers |-> IdleJob]
    /\ calls = <<>>
    /\ call = [fn |-> "none"]

----------------------------------------------------------------------------
(* Model Handle Cache *)

Handle(name) == [loaded_for |-> name]

load_model_OnlyWhenEmpty(m, mn, name, engine_ok) ==
    IF m = None
    THEN IF engine_ok
         THEN [model |-> Some(Handle(name)), model_name |-> Some(name),
               loaded |-> TRUE, raised |-> FALSE]
         ELSE [model |-> m, model_name |-> mn, loaded |-> TRUE, raised |-> TRUE]
    ELSE [model |-> m, model_name |-> mn, loaded |-> FALSE, raised |-> FALSE]

load_model_NameFirst(m, mn, name, engine_ok) ==
    IF m = None \/ mn # Some(name)
    THEN IF engine_ok
         THEN [model |-> Some(Handle(name)), model_name |-> Some(name),
               loaded |-> TRUE, raised |-> FALSE]
         ELSE [model |-> m, model_name |-> Some(name), loaded |-> TRUE,
               raised |-> TRUE]
    ELSE [model |-> m, model_name |-> mn, loaded |-> FALSE, raised |-> FALSE]

(* load_model(self, model_name): engine_ok is whether whisper.load_model   *)
(* returns a handle (TRUE) or raises (FALSE) in case it is called.         *)
load_model(m, mn, name, engine_ok) ==
    IF m = None \/ mn # Some(name)
    THEN IF engine_ok
         THEN [model |-> Some(Handle(name)), model_name |-> Some(name),
               loaded |-> TRUE, raised |-> FALSE]
         ELSE [model |-> m, model_name |-> mn, loaded |-> TRUE, raised |-> TRUE]
    ELSE [model |-> m, model_name |-> mn, loaded |-> FALSE, raised |-> FALSE]

----------------------------------------------------------------------------
(* Acquisition *)

AudioIn(fs, d) == {f \in fs : f.dir = d /\ f.stem = "audio"}

(* download_youtube_audio(self, url): video_title is what get_video_title  *)
(* returned; outcome is what the environment does: mkdir raises, the       *)
(* download raises, the download returns having written audio.mp3, or the  *)
(* download returns without having written a file.  The download_returned *)
(* event records the file the download produced, if any.                   *)
download_youtube_audio(video_title, outcome, ds, fs) ==
    LET video_dir == video_title
        ds1 == IF outcome = "mkdir_fails" THEN ds ELSE ds \cup {video_dir}
        fs1 == IF outcome = "downloaded" THEN fs \cup {AudioFile(video_dir)} ELSE fs
        found == AudioIn(fs1, video_dir)
        steps == <<Ev("get_video_title"), Ev("mkdir")>> \o
                 (IF outcome = "mkdir_fails" THEN <<>> ELSE <<Ev("download")>>) \o
                 (IF outcome = "downloaded"
                  THEN <<Event("download_returned", AudioFile(video_dir))>>
                  ELSE IF outcome = "no_file" THEN <<Ev("download_returned")>>
                  ELSE <<>>)
    IN  IF outcome \in {"mkdir_fails", "download_fails"}
        THEN [audio_file |-> None, video_dir |-> None, error |-> Some("Download failed"),
              dirs |-> ds1, files |-> fs1, steps |-> steps]
        ELSE IF found # {}
        THEN [audio_file |-> Some(CHOOSE f \in found : TRUE),
              video_dir |-> Some(video_dir), error |-> None,
              dirs |-> ds1, files |-> fs1, steps |-> steps]
        ELSE [audio_file |-> None, video_dir |-> None,
              error |-> Some("Failed to find downloaded audio file"),
              dirs |-> ds1, files |-> fs1, steps |-> steps]

DownloadOutcomes == {"mkdir_fails", "download_fails", "downloaded", "no_file"}

RECURSIVE DidAll(_, _)
DidAll(j, es) == IF es = <<>> THEN j ELSE DidAll(Did(j, Head(es)), Tail(es))

----------------------------------------------------------------------------
(* process_youtube_url *)

NewJob(kind, source, m, ts, ef) ==
    [IdleJob EXCEPT !.kind = kind, !.source = source, !.model_name = m,
                    !.include_timestamps = ts, !.export_formats = ef]

(* Lines 165-174: the call, the empty-URL return, the first yield. *)
UrlStart(w) ==
    /\ job[w].pc = "idle"
    /\ \E url \in {None, Some("url")}, m \in Models, ts \in BOOLEAN,
          ef \in SUBSET Formats :
          LET j == NewJob("url", url, m, ts, ef)
          IN  job' = [job EXCEPT ![w] =
                IF url = None
                THEN [j EXCEPT !.pc = "rejected",
                               !.retval = Some("Please enter a YouTube URL")]
                ELSE [Yield(j, UrlObs("downloading", "", None, None, None, None))
                         EXCEPT !.pc = "acquiring"]]
    /\ UNCHANGED <<model, model_name, dirs, files, calls, call>>

(* Lines 175-181: acquisition and the yield that follows it. *)
UrlAcquire(w) ==
    /\ job[w].pc = "acquiring"
    /\ \E video_title \in Titles, outcome \in DownloadOutcomes :
          LET r == download_youtube_audio(video_title, outcome, dirs, files)
              j == [DidAll(job[w], r.steps) EXCEPT !.audio_path = r.audio_file,
                                                   !.video_dir = r.video_dir]
          IN  /\ dirs' = r.dirs
              /\ files' = r.files
              /\ job' = [job EXCEPT ![w] =
                    IF r.error # None
                    THEN [Yield(Raise(j, "acquisition"),
                                UrlObs("download_error", r.error[1],
                                       None, None, None, None))
                             EXCEPT !.pc = "failed"]
                    ELSE [Yield(j, UrlObs("audio_downloaded", "", r.audio_file,
                                          None, None, None))
                             EXCEPT !.pc = "transcribing"]]
    /\ UNCHANGED <<model, model_name, calls, call>>

----------------------------------------------------------------------------
(* Failure handling shared by both handlers *)

Caught_DropsAudio(j, detail) ==
    [Yield(j, IF j.kind = "url"
              THEN UrlObs("transcription_error", detail, None, None, None, None)
              ELSE UploadObs("transcription_error", detail, None, None, None))
        EXCEPT !.pc = "failed"]

Caught_Reraises(j, detail) == [j EXCEPT !.raised = TRUE, !.pc = "failed"]

(* The except clauses, lines 241-242 and 288-289: one error observation    *)
(* and the generator ends.                                                 *)
Caught(j, detail) ==
    [Yield(j, IF j.kind = "url"
              THEN UrlObs("transcription_error", detail, j.audio_path,
                          None, None, None)
              ELSE UploadObs("transcription_error", detail, None, None, None))
        EXCEPT !.pc = "failed"]

(* A straight-line run of operations, each of which is a renderer call or  *)
(* a file write.  A renderer over segments raises exactly when the         *)
(* segments are malformed; a write may raise (I/O error) or not.           *)
IsWrite(op) == op.ev = "write"
MustFail(op, res) ==
    op.ev \in {"format_with_timestamps", "format_srt", "format_vtt"}
        /\ res.segments = "malformed"

(* The positions at which the run can raise; 0 is the run that completes. *)
FailPoints(ops, res) ==
    {k \in 0..Len(ops) :
        /\ \A i \in 1..Len(ops) : MustFail(ops[i], res) => (k # 0 /\ k <= i)
        /\ k # 0 => (IsWrite(ops[k]) \/ MustFail(ops[k], res))}

Entered(ops, k) == IF k = 0 THEN ops ELSE SubSeq(ops, 1, k)
Completed(ops, k) == IF k = 0 THEN ops ELSE SubSeq(ops, 1, k - 1)
WrittenBy(ops) == {ops[i].path : i \in {n \in 1..Len(ops) : IsWrite(ops[n])}}
JobDirWrites(ops) == {p \in WrittenBy(ops) : p.dir # TmpDir}

Doc(name) == <<name>>

----------------------------------------------------------------------------
(* transcribe_audio *)

(* The text of the exception whisper.load_model raises: the engine's own   *)
(* message, which names the requested model (unknown model) or does not    *)
(* (out of memory, failed download).                                       *)
NotFoundText(name) ==
    IF name = "base" THEN "Model base not found" ELSE "Model small not found"

LoadErrorTexts(name) == {NotFoundText(name), "CUDA out of memory"}

Mentions(text, name) == text = NotFoundText(name)

(* Lines 128-133: the load_model call. *)
TranscribeLoad(w) ==
    /\ job[w].pc = "transcribing"
    /\ \E engine_ok \in BOOLEAN :
          LET r == load_model(model, model_name, job[w].model_name, engine_ok)
              j == DidAll(job[w], IF r.loaded
                                  THEN <<Ev("load_model"), Ev("whisper.load_model")>>
                                  ELSE <<Ev("load_model")>>)
          IN  /\ model' = r.model
              /\ model_name' = r.model_name
              /\ IF r.raised
                 THEN \E text \in LoadErrorTexts(job[w].model_name) :
                        job' = [job EXCEPT ![w] = Caught(Raise(j, "model load"), text)]
                 ELSE job' = [job EXCEPT ![w] = [j EXCEPT !.pc = "inference"]]
    /\ UNCHANGED <<dirs, files, calls, call>>

Results == [text : Texts, segments : SegmentShapes]

(* Lines 135-163: self.model.transcribe on whatever handle is cached now. *)
TranscribeRun(w) ==
    /\ job[w].pc = "inference"
    /\ model # None
    /\ LET j == [Did(job[w], Ev("transcribe")) EXCEPT !.ran_on = model]
       IN  \/ job' = [job EXCEPT ![w] = Caught(Raise(j, "inference"), "inference_failed")]
           \/ \E res \in Results :
                job' = [job EXCEPT ![w] =
                          [j EXCEPT !.result = Some(res), !.pc = "rendering"]]
    /\ UNCHANGED <<model, model_name, dirs, files, calls, call>>

----------------------------------------------------------------------------
(* process_youtube_url, after transcription *)

(* Lines 188-193. *)
UrlRenderOps(j) ==
    <<Ev("text_output")>> \o
    (IF j.include_timestamps THEN <<Ev("format_with_timestamps")>> ELSE <<>>)

UrlRender(w) ==
    /\ job[w].pc = "rendering"
    /\ job[w].kind = "url"
    /\ LET j0 == job[w]
           res == j0.result[1]
           ops == UrlRenderOps(j0)
       IN  \E k \in FailPoints(ops, res) :
             LET j == [DidAll(j0, Entered(ops, k))
                          EXCEPT !.text_output = Some(Strip(res.text))]
             IN  job' = [job EXCEPT ![w] =
                   IF k # 0 THEN Caught(Raise(j, "rendering"), "malformed")
                   ELSE [j EXCEPT !.detailed_output =
                                     IF j0.include_timestamps
                                     THEN Some(Doc("timestamped"))
                                     ELSE Some(<<>>),
                                  !.pc = "persisting"]]
    /\ UNCHANGED <<model, model_name, dirs, files, calls, call>>

UrlPersistOps_AlwaysDetailed(j) ==
    <<Event("write", TranscriptFile(j.video_dir[1], "txt")),
      Event("write", DetailedFile(j.video_dir[1]))>>

(* Lines 195-204. *)
UrlPersistOps(j) ==
    <<Event("write", TranscriptFile(j.video_dir[1], "txt"))>> \o
    (IF j.include_timestamps
     THEN <<Event("write", DetailedFile(j.video_dir[1]))>> ELSE <<>>)

UrlPersist(w) ==
    /\ job[w].pc = "persisting"
    /\ LET j0 == job[w]
           ops == UrlPersistOps(j0)
       IN  \E k \in FailPoints(ops, j0.result[1]) :
             LET j == DidAll(j0, Entered(ops, k))
             IN  /\ files' = files \cup JobDirWrites(Completed(ops, k))
                 /\ job' = [job EXCEPT ![w] =
                       IF k # 0
                       THEN Caught(Raise(j, "job directory write"), "io_error")
                       ELSE [j EXCEPT !.pc = "exporting"]]
    /\ UNCHANGED <<model, model_name, dirs, calls, call>>

(* Lines 206-226: exports = {} and, if export_formats, srt, vtt and json   *)
(* each rendered, written to the job directory and put into exports.       *)
UrlExportStep_WriteFirst(j, f, renderer) ==
    IF f \in j.export_formats
    THEN <<Event("write", TranscriptFile(j.video_dir[1], f)), Ev(renderer)>>
    ELSE <<>>

UrlExportStep(j, f, renderer) ==
    IF f \in j.export_formats
    THEN <<Ev(renderer), Event("write", TranscriptFile(j.video_dir[1], f))>>
    ELSE <<>>

UrlExportOps(j) ==
    UrlExportStep(j, "srt", "format_srt") \o
    UrlExportStep(j, "vtt", "format_vtt") \o
    UrlExportStep(j, "json", "json.dumps")

UrlExportKeys(j) ==
    (IF "srt" \in j.export_formats THEN <<"srt">> ELSE <<>>) \o
    (IF "vtt" \in j.export_formats THEN <<"vtt">> ELSE <<>>) \o
    (IF "json" \in j.export_formats THEN <<"json">> ELSE <<>>)

UrlExports(w) ==
    /\ job[w].pc = "exporting"
    /\ LET j0 == job[w]
           ops == UrlExportOps(j0)
       IN  \E k \in FailPoints(ops, j0.result[1]) :
             LET j == DidAll(j0, Entered(ops, k))
             IN  /\ files' = files \cup JobDirWrites(Completed(ops, k))
                 /\ job' = [job EXCEPT ![w] =
                       IF k # 0
                       THEN IF IsWrite(ops[k])
                            THEN Caught(Raise(j, "job directory write"), "io_error")
                            ELSE Caught(Raise(j, "rendering"), "malformed")
                       ELSE [j EXCEPT !.exports = UrlExportKeys(j0),
                                      !.pc = "staging"]]
    /\ UNCHANGED <<model, model_name, dirs, calls, call>>

(* create_export_files(self, exports), lines 344-357: one timestamp, then  *)
(* one write per entry of exports in insertion order.                      *)
create_export_files(exports, timestamp) ==
    [i \in 1..Len(exports) |-> Event("write", ExportFile(timestamp, exports[i]))]

StagingOps_Always(exports, timestamp) ==
    <<Ev("create_export_files")>> \o create_export_files(exports, timestamp)

(* The argument of the final yield: create_export_files(exports) if       *)
(* exports else None.                                                      *)
StagingOps(exports, timestamp) ==
    IF exports # <<>>
    THEN <<Ev("create_export_files")>> \o create_export_files(exports, timestamp)
    ELSE <<>>

StagedFiles(exports, timestamp) ==
    IF exports # <<>>
    THEN [i \in 1..Len(exports) |-> ExportFile(timestamp, exports[i])]
    ELSE None

UrlComplete_ClearsAudio(j, fs) ==
    UrlObs("complete", "", None, j.text_output, j.detailed_output, fs)

(* The tuple of the final yield, lines 233-239. *)
UrlComplete(j, fs) ==
    UrlObs("complete", "", j.audio_path, j.text_output, j.detailed_output, fs)

(* Lines 228-239: the final yield, create_export_files evaluated first. *)
UrlFinish(w) ==
    /\ job[w].pc = "staging"
    /\ job[w].kind = "url"
    /\ LET j0 == job[w]
       IN  \E timestamp \in Timestamps :
             LET ops == StagingOps(j0.exports, timestamp)
             IN  \E k \in FailPoints(ops, j0.result[1]) :
                   LET j == DidAll(j0, Entered(ops, k))
                   IN  job' = [job EXCEPT ![w] =
                         IF k # 0
                         THEN Caught(Raise(j, "export file write"), "io_error")
                         ELSE [Yield(j, UrlComplete(j0,
                                          StagedFiles(j0.exports, timestamp)))
                                  EXCEPT !.pc = "done"]]
    /\ UNCHANGED <<model, model_name, dirs, files, calls, call>>

----------------------------------------------------------------------------
(* process_file_upload *)

(* Lines 244-252: the call, the missing-upload return, the first yield. *)
UploadStart(w) ==
    /\ job[w].pc = "idle"
    /\ \E audio_file \in {None, Some("upload")}, m \in Models, ts \in BOOLEAN,
          ef \in SUBSET Formats :
          LET j == NewJob("upload", audio_file, m, ts, ef)
          IN  job' = [job EXCEPT ![w] =
                IF audio_file = None
                THEN [j EXCEPT !.pc = "rejected",
                               !.retval = Some("Please upload an audio file")]
                ELSE [Yield(j, UploadObs("transcribing", "", None, None, None))
                         EXCEPT !.pc = "transcribing"]]
    /\ UNCHANGED <<model, model_name, dirs, files, calls, call>>

(* Lines 258-275: text, detailed text and the exports dictionary. *)
UploadExportStep(j, f, renderer) ==
    IF f \in j.export_formats THEN <<Ev(renderer)>> ELSE <<>>

UploadRenderOps_Persists(j) ==
    <<Ev("text_output"), Event("write", TranscriptFile("t1", "txt"))>>

UploadRenderOps(j) ==
    <<Ev("text_output")>> \o
    (IF j.include_timestamps THEN <<Ev("format_with_timestamps")>> ELSE <<>>) \o
    UploadExportStep(j, "srt", "format_srt") \o
    UploadExportStep(j, "vtt", "format_vtt") \o
    UploadExportStep(j, "json", "json.dumps")

UploadExportKeys(j) ==
    (IF "txt" \in j.export_formats THEN <<"txt">> ELSE <<>>) \o
    (IF "srt" \in j.export_formats THEN <<"srt">> ELSE <<>>) \o
    (IF "vtt" \in j.export_formats THEN <<"vtt">> ELSE <<>>) \o
    (IF "json" \in j.export_formats THEN <<"json">> ELSE <<>>)

UploadRender(w) ==
    /\ job[w].pc = "rendering"
    /\ job[w].kind = "upload"
    /\ LET j0 == job[w]
           res == j0.result[1]
           ops == UploadRenderOps(j0)
       IN  \E k \in FailPoints(ops, res) :
             LET j == [DidAll(j0, Entered(ops, k))
                          EXCEPT !.text_output = Some(Strip(res.text))]
             IN  job' = [job EXCEPT ![w] =
                   IF k # 0 THEN Caught(Raise(j, "rendering"), "malformed")
                   ELSE [j EXCEPT !.detailed_output =
                                     IF j0.include_timestamps
                                     THEN Some(Doc("timestamped"))
                                     ELSE Some(<<>>),
                                  !.exports = UploadExportKeys(j0),
                                  !.pc = "staging"]]
    /\ UNCHANGED <<model, model_name, dirs, files, calls, call>>

(* The tuple of the final yield, lines 281-286. *)
UploadComplete(j, fs) ==
    UploadObs("complete", "", j.text_output, j.detailed_output, fs)

(* Lines 277-286: the final yield, create_export_files evaluated first. *)
UploadFinish(w) ==
    /\ job[w].pc = "staging"
    /\ job[w].kind = "upload"
    /\ LET j0 == job[w]
       IN  \E timestamp \in Timestamps :
             LET ops == StagingOps(j0.exports, timestamp)
             IN  \E k \in FailPoints(ops, j0.result[1]) :
                   LET j == DidAll(j0, Entered(ops, k))
                   IN  job' = [job EXCEPT ![w] =
                         IF k # 0
                         THEN Caught(Raise(j, "export file write"), "io_error")
                         ELSE [Yield(j, UploadComplete(j0,
                                          StagedFiles(j0.exports, timestamp)))
                                  EXCEPT !.pc = "done"]]
    /\ UNCHANGED <<model, model_name, dirs, files, calls, call>>

----------------------------------------------------------------------------
(* The caller *)

Finished(j) == j.pc \in {"done", "failed", "rejected"}

(* The caller has exhausted the generator; the frame is discarded. *)
Return(w) ==
    /\ Finished(job[w])
    /\ job' = [job EXCEPT ![w] = IdleJob]
    /\ UNCHANGED <<model, model_name, dirs, files, calls, call>>

(* At most one handler executes at a time. *)
Serial(w) == \A v \in Workers \ {w} : job[v].pc = "idle"

Next ==
    \E w \in Workers :
        \/ Serial(w) /\ UrlStart(w)
        \/ Serial(w) /\ UploadStart(w)
        \/ UrlAcquire(w)
        \/ TranscribeLoad(w)
        \/ TranscribeRun(w)
        \/ UrlRender(w)
        \/ UrlPersist(w)
        \/ UrlExports(w)
        \/ UrlFinish(w)
        \/ UploadRender(w)
        \/ UploadFinish(w)
        \/ Return(w)

Spec == Init /\ [][Next]_vars

----------------------------------------------------------------------------
(* A sequence of load_model calls made directly on one transcriber *)

LoadModelCall ==
    /\ Len(calls) < MaxCalls
    /\ \E name \in Models, engine_ok \in BOOLEAN :
          LET r == load_model(model, model_name, name, engine_ok)
          IN  /\ model' = r.model
              /\ model_name' = r.model_name
              /\ calls' = Append(calls,
                    [requested |-> name, before |-> model,
                     before_name |-> model_name, after |-> r.model,
                     after_name |-> r.model_name, loaded |-> r.loaded,
                     raised |-> r.raised])
    /\ UNCHANGED <<dirs, files, job, call>>

CacheNext == LoadModelCall

CacheSpec == Init /\ [][CacheNext]_vars

----------------------------------------------------------------------------
(* Two handlers running concurrently on the shared transcriber: each       *)
(* worker runs one upload-sourced job without timestamps or exports, and   *)
(* the steps of the two jobs interleave freely.                            *)

ConcStart(w) ==
    /\ UploadStart(w)
    /\ job'[w].source # None
    /\ ~job'[w].include_timestamps
    /\ job'[w].export_formats = {}

ConcNext ==
    \E w \in Workers :
        \/ ConcStart(w)
        \/ TranscribeLoad(w)
        \/ TranscribeRun(w)
        \/ UploadRender(w)
        \/ UploadFinish(w)

ConcSpec == Init /\ [][ConcNext]_vars

----------------------------------------------------------------------------
(* Sequences of URL jobs in which nothing raises *)

Succeeds ==
    \A w \in Workers :
        /\ job'[w].kind # "upload"
        /\ job'[w].pc \notin {"failed", "rejected"}

UrlRunsNext ==
    \E w \in Workers :
        \/ Serial(w) /\ UrlStart(w) /\ Succeeds
        \/ UrlAcquire(w) /\ Succeeds
        \/ TranscribeLoad(w) /\ Succeeds
        \/ TranscribeRun(w) /\ Succeeds
        \/ UrlRender(w) /\ Succeeds
        \/ UrlPersist(w) /\ Succeeds
        \/ UrlExports(w) /\ Succeeds
        \/ UrlFinish(w) /\ Succeeds
        \/ Return(w)

UrlRunsSpec == Init /\ [][UrlRunsNext]_vars

----------------------------------------------------------------------------
(* Title Sanitizer: get_video_title on character sequences *)

MaxTitleLen == 2
MaxFolderLen == 100

Pad(n) == [i \in 1..n |-> "a"]

TitleAlphabet == {"a", "?", "/"}

ShortTitles == UNION {[1..n -> TitleAlphabet] : n \in 0..MaxTitleLen}

LongTitles ==
    {Pad(99), Pad(100), Pad(101), <<"?">> \o Pad(100), Pad(100) \o <<"*">>,
     Pad(50) \o <<"<", ">", ":", "\"", "\\", "|">> \o Pad(51)}

VideoIds == {<<>>, <<"x", "y">>, <<"?">>}

(* What ydl.extract_info does: it raises, or returns info with an optional *)
(* title and an optional id.                                               *)
Metadata ==
    {[raises |-> TRUE, title |-> None, id |-> None]} \cup
    [raises : {FALSE},
     title : {None} \cup {Some(t) : t \in ShortTitles \cup LongTitles},
     id : {None} \cup {Some(t) : t \in VideoIds}]

Instants ==
    {[year |-> 2026, month |-> 11, day |-> 2, hour |-> 6, minute |-> 39, second |-> 28],
     [year |-> 2000, month |-> 1, day |-> 1, hour |-> 0, minute |-> 0, second |-> 0],
     [year |-> 2026, month |-> 12, day |-> 31, hour |-> 23, minute |-> 59, second |-> 59]}

DigitChars == <<"0", "1", "2", "3", "4", "5", "6", "7", "8", "9">>

RECURSIVE Decimal(_)
Decimal(n) ==
    IF n < 10 THEN <<DigitChars[n + 1]>>
    ELSE Decimal(n \div 10) \o <<DigitChars[(n % 10) + 1]>>

(* Format specifier 0<width>d: zero padding to at least width digits. *)
RECURSIVE ZeroPad(_, _)
ZeroPad(digits, width) ==
    IF Len(digits) >= width THEN digits ELSE ZeroPad(<<"0">> \o digits, width)

Fixed(n, width) == ZeroPad(Decimal(n), width)

(* strftime('%Y%m%d_%H%M%S') *)
Strftime(now) ==
    Fixed(now.year, 4) \o Fixed(now.month, 2) \o Fixed(now.day, 2) \o <<"_">> \o
    Fixed(now.hour, 2) \o Fixed(now.minute, 2) \o Fixed(now.second, 2)

InvalidChars == <<"<", ">", ":", "\"", "/", "\\", "|", "?", "*">>

(* str.replace(char, "") *)
Remove(title, char) == SelectSeq(title, LAMBDA c : c # char)

RECURSIVE RemoveAll(_, _)
RemoveAll(title, chars) ==
    IF chars = <<>> THEN title
    ELSE RemoveAll(Remove(title, Head(chars)), Tail(chars))

Truncate_OffByOne(title) ==
    IF Len(title) > MaxFolderLen THEN SubSeq(title, 1, MaxFolderLen + 1) ELSE title

Truncate(title) ==
    IF Len(title) > MaxFolderLen THEN SubSeq(title, 1, MaxFolderLen) ELSE title

(* a or b on optional strings: None and "" are falsy. *)
Truthy(a) == a # None /\ a[1] # <<>>
PyOr(a, b) == IF Truthy(a) THEN a ELSE b

FallbackName(now) == <<"v", "i", "d", "e", "o", "_">> \o Strftime(now)

(* get_video_title(self, url), lines 31-48.  With neither title nor id the *)
(* chosen name is None and title.replace raises inside the try.            *)
get_video_title(info, now) ==
    IF info.raises THEN FallbackName(now)
    ELSE LET title == PyOr(info.title, info.id)
         IN  IF title = None THEN FallbackName(now)
             ELSE Truncate(RemoveAll(title[1], InvalidChars))

ResolveTitle ==
    /\ \E info \in Metadata, now \in Instants :
          call' = [fn |-> "get_video_title", info |-> info, now |-> now,
                   ret |-> get_video_title(info, now)]
    /\ UNCHANGED <<model, model_name, dirs, files, job, calls>>

TitleNext == ResolveTitle

TitleSpec == Init /\ [][TitleNext]_vars

----------------------------------------------------------------------------
(* Timestamp formatters.  A time is the double nearest to k/1000 seconds,  *)
(* written here as the whole number of milliseconds k.  Whole seconds are  *)
(* exact in a double, so // and % on 3600, 60 give the exact fields.  The  *)
(* millisecond field is int((seconds % 1) * 1000): the double x nearest to *)
(* k/1000 is M * 2^(b-52) with 2^b <= k/1000 < 2^(b+1), and                *)
(* 1000*M - k*2^(52-b) = e with |e| < 500; x % 1 is exact, so the product  *)
(* is f + e*2^(b-52) rounded to a double, f = k % 1000.  For e < 0 it      *)
(* rounds back to f only within half a unit in the last place below f, and *)
(* otherwise int() truncates it to f - 1.                                  *)

MaxMs == 130

LongTimes == {3599999, 3600000, 3661250, 86399999, 359999999, 360000000}

(* Times below one second, times just above one second, and long times. *)
Times == (0..MaxMs) \cup {1000 + k : k \in 0..MaxMs} \cup LongTimes

RECURSIVE Pow2(_)
Pow2(n) == IF n = 0 THEN 1 ELSE 2 * Pow2(n - 1)

RECURSIVE Pow2Mod1000(_)
Pow2Mod1000(n) == IF n = 0 THEN 1 ELSE (2 * Pow2Mod1000(n - 1)) % 1000

(* Binary exponent b of k/1000 for k >= 1000 (b >= 0). *)
RECURSIVE ExpUp(_, _)
ExpUp(k, b) == IF 1000 * Pow2(b + 1) <= k THEN ExpUp(k, b + 1) ELSE b

(* -b for 0 < k < 1000. *)
RECURSIVE ExpDown(_, _)
ExpDown(k, nb) == IF k * Pow2(nb) < 1000 THEN ExpDown(k, nb + 1) ELSE nb

RECURSIVE ILog2(_, _)
ILog2(f, j) == IF Pow2(j + 1) <= f THEN ILog2(f, j + 1) ELSE j

(* TRUE when (seconds % 1) * 1000 is a double below the whole number f. *)
ProductBelow(k) ==
    LET f == k % 1000
        up == IF k >= 1000 THEN ExpUp(k, 0) ELSE 0
        down == IF k >= 1000 THEN 0 ELSE ExpDown(k, 0)
        r == (f * Pow2Mod1000(52 - up + down)) % 1000
        j == ILog2(f, 0)
        half == IF f = Pow2(j) THEN 2 ELSE 1
    IN  /\ f # 0
        /\ r # 0
        /\ r < 500
        /\ r * Pow2(half + up) > Pow2(j + down)

Hours(k) == k \div 3600000
Minutes(k) == (k % 3600000) \div 60000
Secs(k) == (k % 60000) \div 1000
Millis(k) == IF ProductBelow(k) THEN (k % 1000) - 1 ELSE k % 1000

HMS(k) ==
    Fixed(Hours(k), 2) \o <<":">> \o Fixed(Minutes(k), 2) \o <<":">> \o
    Fixed(Secs(k), 2)

format_timestamp(seconds) == HMS(seconds)

format_srt_timestamp(seconds) ==
    HMS(seconds) \o <<",">> \o Fixed(Millis(seconds), 3)

format_vtt_timestamp(seconds) ==
    HMS(seconds) \o <<".">> \o Fixed(Millis(seconds), 3)

FormatTime ==
    /\ \E seconds \in Times :
          call' = [fn |-> "format_timestamp", seconds |-> seconds,
                   plain |-> format_timestamp(seconds),
                   srt |-> format_srt_timestamp(seconds),
                   vtt |-> format_vtt_timestamp(seconds)]
    /\ UNCHANGED <<model, model_name, dirs, files, job, calls>>

TimeNext == FormatTime

TimeSpec == Init /\ [][TimeNext]_vars

----------------------------------------------------------------------------
(* SRT renderer: format_srt on a list of segments *)

MaxSegments == 3

SegmentTexts == {<<" ", "h", "i", " ">>, <<"y", "o">>, <<" ">>}

Segments ==
    [start : {0}, end : {1500}, text : SegmentTexts] \cup
    [start : {1001}, end : {3661250}, text : SegmentTexts]

SegmentLists == UNION {[1..n -> Segments] : n \in 0..MaxSegments}

(* sep.join(parts) *)
RECURSIVE Join(_, _)
Join(parts, sep) ==
    IF parts = <<>> THEN <<>>
    ELSE IF Len(parts) = 1 THEN parts[1]
    ELSE parts[1] \o sep \o Join(Tail(parts), sep)

Arrow == <<" ", "-", "-", ">", " ">>

SrtBlock_NoStrip(i, segment) ==
    Decimal(i) \o <<"\n">> \o
    format_srt_timestamp(segment.start) \o Arrow \o
    format_srt_timestamp(segment.end) \o <<"\n">> \o
    segment.text \o <<"\n">>

(* f"{i}\n{start} --> {end}\n{text}\n" *)
SrtBlock(i, segment) ==
    Decimal(i) \o <<"\n">> \o
    format_srt_timestamp(segment.start) \o Arrow \o
    format_srt_timestamp(segment.end) \o <<"\n">> \o
    Strip(segment.text) \o <<"\n">>

(* for i, segment in enumerate(segments, i): output.append(...) *)
RECURSIVE SrtBlocks(_, _)
SrtBlocks(segments, i) ==
    IF segments = <<>> THEN <<>>
    ELSE <<SrtBlock(i, Head(segments))>> \o SrtBlocks(Tail(segments), i + 1)

format_srt(segments) == Join(SrtBlocks(segments, 1), <<"\n">>)

(* A pending call format_srt(arg); segments is the caller's list object. *)
SrtInit ==
    /\ model = None
    /\ model_name = None
    /\ dirs = {}
    /\ files = {}
    /\ job = [w \in Workers |-> IdleJob]
    /\ calls = <<>>
    /\ \E segments \in SegmentLists :
          call = [fn |-> "format_srt", arg |-> segments, segments |-> segments,
                  ret |-> None]

FormatSrt ==
    /\ call.fn = "format_srt"
    /\ call.ret = None
    /\ call' = [call EXCEPT !.ret = Some(format_srt(call.segments))]
    /\ UNCHANGED <<model, model_name, dirs, files, job, calls>>

SrtNext == FormatSrt

SrtSpec == SrtInit /\ [][SrtNext]_vars

----------------------------------------------------------------------------
(* Properties *)

Last(s) == s[Len(s)]
IsErrorObs(o) == o.status \in {"download_error", "transcription_error"}
Indices(j, e) == {i \in 1..Len(j.trace) : j.trace[i].ev = e}
Happened(j, e) == Indices(j, e) # {}
ErrorCount(j) == Cardinality({i \in 1..Len(j.obs) : IsErrorObs(j.obs[i])})
Slots == {"audio_path", "text", "detailed", "files"}
Slot(o, f) == IF f \in DOMAIN o THEN o[f] ELSE None
IsEmpty(v) == v = None \/ v = Some(<<>>)

(* C1: the last observation of a URL-sourced job whose acquisition failed  *)
(* carries neither an audio path nor transcript text; the last observation *)
(* of one whose acquisition succeeded and whose model load or inference    *)
(* failed carries the acquired audio path and no transcript text.          *)
C1_FailedUrlJobArtifacts ==
    \A w \in Workers :
        LET j == job[w]
            o == Last(j.obs)
        IN  (j.kind = "url" /\ j.pc = "failed") =>
              /\ j.failed_in = Some("acquisition") =>
                    (o.audio_path = None /\ o.text = None)
              /\ j.failed_in \in {Some("model load"), Some("inference")} =>
                    /\ j.video_dir # None
                    /\ o.audio_path = Some(AudioFile(j.video_dir[1]))
                    /\ o.audio_path = j.obs[2].audio_path
                    /\ o.audio_path[1] \in files
                    /\ o.text = None

C1_Witness ==
    \E w \in Workers :
        /\ job[w].kind = "url"
        /\ job[w].pc = "failed"
        /\ job[w].failed_in = Some("inference")
        /\ Last(job[w].obs).audio_path # None

(* C2: in both handlers a failure in any stage yields exactly one error    *)
(* observation, which is the last observation of the job; nothing runs     *)
(* after it and no exception reaches the caller.                           *)
C2_OneErrorObservation ==
    \A w \in Workers :
        LET j == job[w]
        IN  /\ ~j.raised
            /\ ErrorCount(j) <= 1
            /\ (j.failed_in # None) <=> (ErrorCount(j) = 1)
            /\ (j.pc = "failed") <=> (j.failed_in # None)
            /\ ErrorCount(j) = 1 => IsErrorObs(Last(j.obs))

C2_NothingAfterFailure ==
    \A w \in Workers :
        (job[w].failed_in # None /\ job'[w] # job[w]) =>
            /\ job'[w] = IdleJob
            /\ UNCHANGED <<model, model_name, dirs, files>>

C2_SingleTerminalError ==
    []C2_OneErrorObservation /\ [][C2_NothingAfterFailure]_vars

C2_Witness ==
    \E w \in Workers :
        /\ job[w].failed_in = Some("export file write")
        /\ job[w].pc = "failed"
        /\ IsErrorObs(Last(job[w].obs))

(* C3: the terminal observation of a failed job carries every artifact     *)
(* known when it failed: the audio path once acquisition succeeded and the *)
(* transcript text once transcription returned a result.                   *)
C3_FailedKeepsArtifacts ==
    \A w \in Workers :
        LET j == job[w]
            o == Last(j.obs)
        IN  j.pc = "failed" =>
              /\ (j.kind = "url" /\ j.audio_path # None) =>
                    o.audio_path = j.audio_path
              /\ j.result # None => o.text = Some(Strip(j.result[1].text))

(* C4: within one job no artifact is retracted: a non-empty audio path,    *)
(* transcript text, detailed text or export file list carried by one       *)
(* observation is carried unchanged by every later observation.            *)
C4_NoRetraction ==
    \A w \in Workers :
        LET obs == job[w].obs
        IN  \A i \in 1..Len(obs) : \A k \in i..Len(obs) : \A f \in Slots :
                ~IsEmpty(Slot(obs[i], f)) => Slot(obs[k], f) = Slot(obs[i], f)

C4_Witness ==
    \E w \in Workers :
        LET obs == job[w].obs
        IN  /\ Len(obs) = 3
            /\ job[w].pc = "done"
            /\ ~IsEmpty(obs[2].audio_path)
            /\ obs[3].audio_path = obs[2].audio_path
            /\ ~IsEmpty(obs[3].text)

(* C5: a load_model call performs an engine load exactly when no handle is *)
(* cached or the cached identifier differs from the requested one; after a *)
(* successful call the cached identifier is the requested one, and a call  *)
(* that loaded has replaced the handle cached before it.  'base','base'    *)
(* performs one load, 'base','small' two.                                  *)
LoadCount == Cardinality({k \in 1..Len(calls) : calls[k].loaded})

C5_LoadExactlyOnMiss ==
    /\ \A k \in 1..Len(calls) :
          LET c == calls[k]
          IN  /\ c.loaded <=>
                    (c.before = None \/ c.before_name # Some(c.requested))
              /\ ~c.loaded => (c.after = c.before /\ ~c.raised)
              /\ ~c.raised =>
                    /\ c.after_name = Some(c.requested)
                    /\ c.after # None
                    /\ c.after[1].loaded_for = c.requested
              /\ (c.loaded /\ ~c.raised /\ c.before # None) => c.after # c.before
              /\ k > 1 => (c.before = calls[k - 1].after
                              /\ c.before_name = calls[k - 1].after_name)
              /\ k = Len(calls) => (c.after = model /\ c.after_name = model_name)
    /\ (Len(calls) = 2 /\ \A k \in 1..2 : ~calls[k].raised) =>
          /\ (calls[1].requested = "base" /\ calls[2].requested = "base")
                => LoadCount = 1
          /\ (calls[1].requested = "base" /\ calls[2].requested = "small")
                => LoadCount = 2

C5_Witness ==
    /\ Len(calls) = 2
    /\ calls[1].requested = "base" /\ ~calls[1].raised
    /\ calls[2].requested = "small" /\ ~calls[2].raised
    /\ calls[2].loaded
    /\ model = Some(Handle("small"))

(* C6: a successful URL-sourced job writes into its job directory exactly  *)
(* transcript.txt, transcript_with_timestamps.txt iff want_timestamps, and *)
(* transcript.srt / .vtt / .json iff that format is in export_formats.     *)
JobDirWriteIdx(j) == {i \in Indices(j, "write") : j.trace[i].path.dir # TmpDir}
TmpWriteIdx(j) == {i \in Indices(j, "write") : j.trace[i].path.dir = TmpDir}
JobDirWritten(j) == {j.trace[i].path : i \in JobDirWriteIdx(j)}

ExpectedTranscripts(d, want_timestamps, export_formats) ==
    {TranscriptFile(d, "txt")}
        \cup (IF want_timestamps THEN {DetailedFile(d)} ELSE {})
        \cup {TranscriptFile(d, f) : f \in export_formats \cap {"srt", "vtt", "json"}}

C6_PersistedTranscripts ==
    \A w \in Workers :
        LET j == job[w]
        IN  (j.kind = "url" /\ j.pc = "done") =>
              /\ JobDirWritten(j) = ExpectedTranscripts(j.video_dir[1],
                                        j.include_timestamps, j.export_formats)
              /\ JobDirWritten(j) \subseteq files
              /\ Cardinality(JobDirWriteIdx(j)) = Cardinality(JobDirWritten(j))
              /\ (j.include_timestamps /\ j.export_formats = {"srt", "vtt"}) =>
                    JobDirWritten(j) =
                        {TranscriptFile(j.video_dir[1], "txt"),
                         DetailedFile(j.video_dir[1]),
                         TranscriptFile(j.video_dir[1], "srt"),
                         TranscriptFile(j.video_dir[1], "vtt")}

C6_Witness ==
    \E w \in Workers :
        /\ job[w].kind = "url"
        /\ job[w].pc = "done"
        /\ job[w].include_timestamps
        /\ job[w].export_formats = {"srt", "vtt"}
        /\ Cardinality(JobDirWritten(job[w])) = 4

(* C7: a successful job of either kind with a non-empty export_formats     *)
(* returns in its final observation exactly one export-staged path per     *)
(* requested format, each named transcript_<timestamp>.<format>.           *)
C7_OneExportPerFormat ==
    \A w \in Workers :
        LET j == job[w]
            fs == Last(j.obs).files
        IN  (j.pc = "done" /\ j.export_formats # {}) =>
              /\ Len(fs) = Cardinality(j.export_formats)
              /\ {fs[i].ext : i \in 1..Len(fs)} = j.export_formats
              /\ \A i \in 1..Len(fs) :
                    /\ fs[i].dir = TmpDir
                    /\ fs[i].stem = "transcript"
                    /\ fs[i].stamp \in Timestamps

(* C8: create_export_files runs only after transcription and rendering     *)
(* have succeeded and only when an export format was requested; a job with *)
(* an empty selection still completes, its final observation carrying the  *)
(* transcript text and no file list, with no error observation.            *)
RenderEvents ==
    {"text_output", "format_with_timestamps", "format_srt", "format_vtt",
     "json.dumps"}
RenderIdx(j) == {i \in 1..Len(j.trace) : j.trace[i].ev \in RenderEvents}

C8_StagingInv ==
    \A w \in Workers :
        LET j == job[w]
        IN  /\ Happened(j, "create_export_files") =>
                  /\ j.export_formats # {}
                  /\ j.result # None /\ j.text_output # None
                  /\ j.detailed_output # None
                  /\ \A c \in Indices(j, "create_export_files") :
                        /\ \A i \in RenderIdx(j) \cup Indices(j, "transcribe") : i < c
                        /\ \A i \in TmpWriteIdx(j) : c < i
            /\ TmpWriteIdx(j) # {} => Happened(j, "create_export_files")
            /\ j.export_formats = {} => j.failed_in # Some("export file write")
            /\ (j.pc = "done" /\ j.export_formats = {}) =>
                  /\ Last(j.obs).status = "complete"
                  /\ Last(j.obs).text = Some(Strip(j.result[1].text))
                  /\ Last(j.obs).files = None
                  /\ ErrorCount(j) = 0

C8_EmptySelectionCompletes ==
    \A w \in Workers :
        (job[w].pc = "staging" /\ job[w].export_formats = {}
            /\ job'[w] # job[w]) => job'[w].pc = "done"

C8_ExportStagingOnDemand ==
    []C8_StagingInv /\ [][C8_EmptySelectionCompletes]_vars

C8_Witness ==
    \E w \in Workers :
        /\ job[w].pc = "done"
        /\ job[w].export_formats = {}
        /\ Last(job[w].obs).text = Some(<<"a">>)
        /\ Last(job[w].obs).files = None

(* C9: an upload-sourced job performs no metadata lookup, download or      *)
(* directory creation and writes nothing under the transcriptions          *)
(* directory; its only writes are export-staged files.                     *)
C9_UploadInv ==
    \A w \in Workers :
        LET j == job[w]
        IN  j.kind = "upload" =>
              /\ \A e \in {"get_video_title", "mkdir", "download"} : ~Happened(j, e)
              /\ JobDirWriteIdx(j) = {}
              /\ j.video_dir = None

C9_UploadLeavesTree ==
    \A w \in Workers :
        ((job[w].kind = "upload" \/ job'[w].kind = "upload")
            /\ job'[w] # job[w]) => UNCHANGED <<dirs, files>>

C9_UploadWritesOnlyExports ==
    []C9_UploadInv /\ [][C9_UploadLeavesTree]_vars

C9_Witness ==
    \E w \in Workers :
        /\ job[w].kind = "upload"
        /\ job[w].pc = "done"
        /\ TmpWriteIdx(job[w]) # {}
        /\ files # {}

(* C10 as stated: in a URL-sourced job the stages are entered in the order *)
(* Acquiring, Transcribing, Rendering, Persisting, each at most once, each *)
(* only after the previous one succeeded, and no file is written to the    *)
(* job directory before rendering has completed.                           *)
Before(j, a, b) == \A i \in Indices(j, a), k \in Indices(j, b) : i < k
Once(j, e) == Cardinality(Indices(j, e)) <= 1

StagesOrdered(j) ==
    /\ \A e \in {"get_video_title", "mkdir", "download", "load_model",
                  "whisper.load_model", "transcribe", "create_export_files"}
                  \cup RenderEvents : Once(j, e)
    /\ \A i, k \in Indices(j, "write") :
          j.trace[i].path = j.trace[k].path => i = k
    /\ Happened(j, "load_model") =>
          /\ j.audio_path # None
          /\ Happened(j, "download") /\ Before(j, "download", "load_model")
    /\ Happened(j, "transcribe") =>
          (Happened(j, "load_model") /\ Before(j, "load_model", "transcribe"))
    /\ RenderIdx(j) # {} =>
          /\ j.result # None
          /\ \A t \in Indices(j, "transcribe"), i \in RenderIdx(j) : t < i
    /\ JobDirWriteIdx(j) # {} =>
          (Happened(j, "text_output") /\ Happened(j, "transcribe"))

C10_StagesInOrder ==
    \A w \in Workers :
        LET j == job[w]
        IN  j.kind = "url" =>
              /\ StagesOrdered(j)
              /\ \A i \in RenderIdx(j), k \in JobDirWriteIdx(j) : i < k

(* C10 amended: as above, except that a file is written to the job         *)
(* directory only after its own content has been rendered: transcript.srt, *)
(* transcript.vtt and transcript.json are each rendered and then written   *)
(* after transcript.txt has already been written.                          *)
RendererOf(p) ==
    IF p.stem = "transcript_with_timestamps" THEN "format_with_timestamps"
    ELSE IF p.ext = "srt" THEN "format_srt"
    ELSE IF p.ext = "vtt" THEN "format_vtt"
    ELSE IF p.ext = "json" THEN "json.dumps"
    ELSE "text_output"

C10_StagesInOrderAmended ==
    \A w \in Workers :
        LET j == job[w]
        IN  j.kind = "url" =>
              /\ StagesOrdered(j)
              /\ \A k \in JobDirWriteIdx(j) :
                    /\ \E i \in Indices(j, RendererOf(j.trace[k].path)) : i < k
                    /\ \A i \in Indices(j, "text_output")
                              \cup Indices(j, "format_with_timestamps") : i < k
                    /\ j.trace[k].path.ext \in {"srt", "vtt", "json"} =>
                          \E t \in JobDirWriteIdx(j) :
                              /\ t < k
                              /\ j.trace[t].path = TranscriptFile(j.video_dir[1], "txt")

C10_Witness ==
    \E w \in Workers :
        LET j == job[w]
        IN  /\ j.kind = "url"
            /\ j.pc = "done"
            /\ \E t \in JobDirWriteIdx(j), r \in Indices(j, "format_srt") : t < r

(* C11: with two jobs running concurrently under different identifiers,    *)
(* a job's inference can run on a handle loaded for the other identifier;  *)
(* this happens only when a concurrent job with another identifier loads   *)
(* its model between the first job's load_model and its inference call.    *)
OwnHandle(j) == Some(Handle(j.model_name))

C11_RanOnCachedHandle ==
    \A w \in Workers :
        LET j == job[w]
        IN  /\ j.ran_on # None =>
                  \/ j.ran_on = OwnHandle(j)
                  \/ \E v \in Workers \ {w} :
                        /\ job[v].model_name # j.model_name
                        /\ j.ran_on = OwnHandle(job[v])
                        /\ Happened(job[v], "whisper.load_model")
                        /\ job[v].failed_in # Some("model load")
            /\ (j.pc = "inference" /\ model # OwnHandle(j)) =>
                  \E v \in Workers \ {w} :
                      /\ model = OwnHandle(job[v])
                      /\ Happened(job[v], "whisper.load_model")

C11_LoadCachesOwnHandle ==
    \A w \in Workers :
        (job[w].pc = "transcribing" /\ job'[w].pc = "inference") =>
            model' = OwnHandle(job[w])

C11_EvictedOnlyByOtherJob ==
    \A w \in Workers :
        (/\ job[w].pc = "inference"
         /\ job'[w] = job[w]
         /\ model = OwnHandle(job[w])
         /\ model' # model) =>
            \E v \in Workers \ {w} :
                /\ job[v].pc = "transcribing" /\ job'[v].pc = "inference"
                /\ job[v].model_name # job[w].model_name
                /\ model' = OwnHandle(job[v])

C11_EvictionBetweenLoadAndInference ==
    /\ []C11_RanOnCachedHandle
    /\ [][C11_LoadCachesOwnHandle /\ C11_EvictedOnlyByOtherJob]_vars

C11_Witness ==
    \E w \in Workers :
        /\ Happened(job[w], "load_model")
        /\ job[w].failed_in = None
        /\ job[w].ran_on # None
        /\ job[w].ran_on # OwnHandle(job[w])

(* C12: when loading the requested model fails, the engine's transcribe is *)
(* never invoked for that job and the terminal observation reports the     *)
(* failure together with the identifier of the model that failed to load.  *)
C12_LoadFailureNamesModel ==
    \A w \in Workers :
        LET j == job[w]
        IN  j.failed_in = Some("model load") =>
              /\ ~Happened(j, "transcribe")
              /\ j.ran_on = None
              /\ IsErrorObs(Last(j.obs))
              /\ Mentions(Last(j.obs).detail, j.model_name)

(* C13: whenever the download returns normally without having produced an  *)
(* audio file for this job, acquisition returns the file-not-found error   *)
(* and transcription does not run, whatever earlier jobs left behind.      *)
ProducedNothing(j) ==
    \E i \in Indices(j, "download_returned") : j.trace[i].path = NoPath

C13_MissingFileIsAnError ==
    \A w \in Workers :
        LET j == job[w]
        IN  (j.kind = "url" /\ ProducedNothing(j)) =>
              /\ j.pc = "failed"
              /\ j.audio_path = None
              /\ Last(j.obs).status = "download_error"
              /\ Last(j.obs).detail = "Failed to find downloaded audio file"
              /\ ~Happened(j, "load_model")
              /\ ~Happened(j, "transcribe")

(* C14: get_video_title returns a non-empty folder name for every input,   *)
(* also when every character of the title or id is reserved and when the   *)
(* metadata has neither title nor id.                                      *)
C14_FolderNameNonEmpty ==
    call.fn = "get_video_title" => call.ret # <<>>

(* C15: for every metadata outcome get_video_title returns a string with   *)
(* none of the reserved characters and at most 100 characters; it is made  *)
(* from the title when present, else from the id, and it is the synthetic  *)
(* name video_<8 digits>_<6 digits> when the lookup raises.                *)
Reserved == {"<", ">", ":", "\"", "/", "\\", "|", "?", "*"}
Digits == {DigitChars[i] : i \in 1..10}
Kept(t) == SelectSeq(t, LAMBDA c : c \notin Reserved)
First100(t) == [i \in 1..(IF Len(t) < 100 THEN Len(t) ELSE 100) |-> t[i]]

IsSynthetic(r) ==
    /\ Len(r) = 21
    /\ SubSeq(r, 1, 6) = <<"v", "i", "d", "e", "o", "_">>
    /\ \A i \in 7..14 : r[i] \in Digits
    /\ r[15] = "_"
    /\ \A i \in 16..21 : r[i] \in Digits

C15_SanitizedFolderName ==
    call.fn = "get_video_title" =>
        LET info == call.info
            r == call.ret
        IN  /\ \A i \in 1..Len(r) : r[i] \notin Reserved
            /\ Len(r) <= 100
            /\ (~info.raises /\ Truthy(info.title)) => r = First100(Kept(info.title[1]))
            /\ (~info.raises /\ ~Truthy(info.title) /\ Truthy(info.id)) =>
                  r = First100(Kept(info.id[1]))
            /\ info.raises => IsSynthetic(r)

C15_Witness ==
    /\ call.fn = "get_video_title"
    /\ ~call.info.raises
    /\ call.info.title # None
    /\ Len(call.info.title[1]) > 100
    /\ \E i \in 1..Len(call.info.title[1]) : call.info.title[1][i] \in Reserved
    /\ Len(call.ret) = 100

(* C16: for every non-negative time of s milliseconds the SRT and VTT      *)
(* timestamps are equal except for the separator before the milliseconds,  *)
(* their hours, minutes and seconds are those of format_timestamp, minutes *)
(* and seconds are in 0..59, milliseconds in 0..999, and the four fields   *)
(* add up to s.                                                            *)
RECURSIVE ParseNat(_)
ParseNat(digits) ==
    IF digits = <<>> THEN 0
    ELSE 10 * ParseNat(SubSeq(digits, 1, Len(digits) - 1)) +
         (CHOOSE d \in 0..9 : DigitChars[d + 1] = digits[Len(digits)])

Fields(stamp) ==
    LET n == Len(stamp)
    IN  [h |-> ParseNat(SubSeq(stamp, 1, n - 10)),
         m |-> ParseNat(SubSeq(stamp, n - 8, n - 7)),
         s |-> ParseNat(SubSeq(stamp, n - 5, n - 4)),
         sep |-> stamp[n - 3],
         ms |-> ParseNat(SubSeq(stamp, n - 2, n))]

C16_SharedDecomposition ==
    call.fn = "format_timestamp" =>
        LET srt == call.srt
            vtt == call.vtt
            n == Len(srt)
            a == Fields(srt)
        IN  /\ Len(vtt) = n
            /\ \A i \in 1..n : i # n - 3 => srt[i] = vtt[i]
            /\ srt[n - 3] = "," /\ vtt[n - 3] = "."
            /\ SubSeq(srt, 1, n - 4) = call.plain
            /\ srt[n - 9] = ":" /\ srt[n - 6] = ":"
            /\ a.m \in 0..59 /\ a.s \in 0..59 /\ a.ms \in 0..999
            /\ a.h * 3600000 + a.m * 60000 + a.s * 1000 + a.ms = call.seconds

(* C17: for every list of n segments format_srt emits exactly n blocks in  *)
(* input order; the k-th block is numbered k (from 1) and carries the k-th *)
(* segment's start, end and trimmed text; the list is left as it was.      *)
RECURSIVE Lines(_)
Lines(doc) ==
    IF \A i \in 1..Len(doc) : doc[i] # "\n" THEN <<doc>>
    ELSE LET i == CHOOSE i \in 1..Len(doc) :
                      doc[i] = "\n" /\ \A h \in 1..(i - 1) : doc[h] # "\n"
         IN  <<SubSeq(doc, 1, i - 1)>> \o Lines(SubSeq(doc, i + 1, Len(doc)))

Trimmed(t) ==
    LET inked == {i \in 1..Len(t) : t[i] # " "}
    IN  IF inked = {} THEN <<>>
        ELSE SubSeq(t, CHOOSE i \in inked : \A h \in inked : i <= h,
                       CHOOSE i \in inked : \A h \in inked : i >= h)

C17_SrtBlocksInOrder ==
    (call.fn = "format_srt" /\ call.ret # None) =>
        LET segs == call.arg
            n == Len(segs)
            doc == call.ret[1]
            lines == Lines(doc)
        IN  /\ call.segments = call.arg
            /\ n = 0 => doc = <<>>
            /\ n > 0 =>
                  /\ Len(lines) = 4 * n
                  /\ \A k \in 1..n :
                        /\ lines[4 * k - 3] # <<>>
                        /\ \A i \in 1..Len(lines[4 * k - 3]) :
                              lines[4 * k - 3][i] \in Digits
                        /\ ParseNat(lines[4 * k - 3]) = k
                        /\ lines[4 * k - 2] =
                              format_srt_timestamp(segs[k].start) \o
                              <<" ", "-", "-", ">", " ">> \o
                              format_srt_timestamp(segs[k].end)
                        /\ lines[4 * k - 1] = Trimmed(segs[k].text)
                        /\ lines[4 * k] = <<>>

C17_Witness ==
    /\ call.fn = "format_srt"
    /\ call.ret # None
    /\ Len(call.arg) >= 2
    /\ call.arg[1].text # call.arg[2].text
    /\ \E k \in 1..Len(call.arg) : Trimmed(call.arg[k].text) # call.arg[k].text

(* C18: with at most one job executing at a time, after any sequence of    *)
(* jobs with any model identifiers and any load or inference failures,     *)
(* every inference call runs on a handle loaded for the model_name of the  *)
(* job making the call, and a failed load leaves the cached handle and the *)
(* cached identifier as they were.                                         *)
C18_OneJobAtATime ==
    Cardinality({w \in Workers : job[w].pc # "idle"}) <= 1

C18_CacheCoherent ==
    /\ (model = None) = (model_name = None)
    /\ model # None => model = Some(Handle(model_name[1]))

C18_RanOnOwnHandle ==
    \A w \in Workers :
        job[w].ran_on # None => job[w].ran_on = Some(Handle(job[w].model_name))

C18_FailedLoadKeepsCache ==
    \A w \in Workers :
        (job[w].pc = "transcribing" /\ job'[w].failed_in = Some("model load")) =>
            /\ model' = model
            /\ model_name' = model_name

C18_SerializedInferenceOnOwnModel ==
    /\ [](C18_OneJobAtATime /\ C18_CacheCoherent /\ C18_RanOnOwnHandle)
    /\ [][C18_FailedLoadKeepsCache]_vars

C18_Witness ==
    \E w \in Workers :
        /\ job[w].ran_on # None
        /\ Happened(job[w], "load_model")
        /\ ~Happened(job[w], "whisper.load_model")

(* C19: after any sequence of successful URL jobs a job directory holds    *)
(* only the transcript files of the most recent job that used it: no       *)
(* transcript file an earlier job with the same title wrote for an option  *)
(* the later job did not request remains.                                  *)
TranscriptsIn(d) ==
    {f \in files : f.dir = d /\ f.stem \in {"transcript", "transcript_with_timestamps"}}

C19_OnlyLatestTranscripts ==
    \A w \in Workers :
        LET j == job[w]
        IN  (j.kind = "url" /\ j.pc = "done") =>
              TranscriptsIn(j.video_dir[1]) = JobDirWritten(j)

(* C20: an invocation with an empty URL or an absent upload runs no stage  *)
(* and delivers exactly one status observation to the caller, carrying the *)
(* prompt message and no artifacts.                                        *)
Prompt(kind) ==
    IF kind = "url" THEN "Please enter a YouTube URL"
    ELSE "Please upload an audio file"

C20_PromptObservation ==
    \A w \in Workers :
        LET j == job[w]
        IN  j.pc = "rejected" =>
              /\ j.source = None
              /\ j.trace = <<>>
              /\ Len(j.obs) = 1
              /\ j.obs[1].detail = Prompt(j.kind)
              /\ j.obs[1].text = None
              /\ j.obs[1].detailed = None
              /\ j.obs[1].files = None

====
